---- MODULE Spec2Model ----
(***************************************************************************)
(* MaatriCare: the rate-limited LLM gate (src/Service/llm_service.py),     *)
(* the usage monitor (src/Utils/api_monitor.py), the intent classifier,    *)
(* the workers, the response renderer and process_query                   *)
(* (src/Agent/langgraph_orchestrator.py).                                  *)
(*                                                                         *)
(* Time is kept as ages: an entry of _request_times is stored as           *)
(* current_time - t (seconds), saturated at WindowSeconds, because the     *)
(* code reads a timestamp only through current_time - t < 60 and           *)
(* 60 - (current_time - oldest).  The clock advances in quanta of          *)
(* TickStep seconds; a sleep shorter than one quantum may end inside the   *)
(* quantum in which it started.                                            *)
(***************************************************************************)
EXTENDS Integers, Sequences, FiniteSets, TLC

\* ---------------------------------------------------------------- bounds
NumCallers == 3
MaxInvocations == 3
TickStep == 30
MaxWords == 2
MaxQueries == 1
MaxHistory == 3
FirstYear == 2024
NumYears == 2

\* requests_per_minute is a constructor argument of RateLimitedLLMService; the
\* shipped instance passes 25 (llm_service.py:198).  The model instantiates the
\* class with a shorter window, so that a full window is reached from an empty
\* one within the bound on invocations.
requests_per_minute == 3

\* ------------------------------------------------- configuration constants
max_concurrent_requests == 2
retry_attempts == 3
base_retry_delay == 1
WindowSeconds == 60

Callers == 1..NumCallers

VARIABLES
  pc,             \* position of each caller inside invoke / ainvoke
  env_mode,       \* invoke: what asyncio.get_event_loop() gave this call
  run_no,         \* 1: first asyncio.run of this invoke, 2: the fallback run
  attempt,        \* loop variable of _make_request_with_retry
  last_exception, \* local of _make_request_with_retry
  sleep_left,     \* seconds left of the caller's current asyncio.sleep
  calls,          \* upstream calls made by the caller's current invoke
  sleeps,         \* backoff sleeps started by the caller's current run
  outcome,        \* what the caller's last invoke returned or raised
  sem_value,      \* _semaphore: free slots
  sem_waiters,    \* _semaphore: FIFO of blocked callers
  lock_holder,    \* _rate_limit_lock: owner, 0 when free
  request_times,  \* _request_times, as ages
  total_requests, \* api_monitor.total_requests
  attempts_made,  \* upstream attempts made by all callers
  invocations     \* invoke calls started

VARIABLES
  pq_pc,                 \* process_query: "idle", or the graph node that runs next
  state,                 \* the ConversationState of the current query
  node_trace,            \* graph nodes run by the current query, in order
  current_profile,       \* PatientContextManager.current_profile
  current_medical_state, \* PatientContextManager.current_medical_state
  conversation_history,  \* PatientContextManager.conversation_history
  response,              \* what the last process_query returned
  today,                 \* the calendar day, as datetime.now() gives it
  last_profile_data,     \* the argument of the latest set_profile call
  chat_history,          \* st.session_state.chat_history of the UI session
  last_processed,        \* st.session_state.last_processed; <<>> for None
  submitted              \* chat messages and quick-action clicks of the user so far

gateVars == <<pc, env_mode, run_no, attempt, last_exception, sleep_left, calls,
              sleeps, outcome, sem_value, sem_waiters, lock_holder,
              request_times, total_requests, attempts_made, invocations>>

pipeVars == <<pq_pc, state, node_trace, current_profile,
              current_medical_state, conversation_history, response, today,
              last_profile_data, chat_history, last_processed, submitted>>

vars == <<gateVars, pipeVars>>

NoException == [msg |-> "none", type |-> "none", origin |-> "none", id |-> 0]
NoOutcome == [kind |-> "none", exc |-> NoException]

\* The error message classes the gate distinguishes by substring, and whether
\* the exception object is a RuntimeError (which invoke's handler catches).
ErrorMessages == {"rate_limit", "server_error", "other"}
ExceptionTypes == {"RuntimeError", "APIError"}
ThrottleDelays == {3, 10}

\* What asyncio.get_event_loop() gives invoke depends on the calling thread:
\* a thread without a loop (get_event_loop raises RuntimeError), a thread whose
\* loop exists but is not running, a coroutine of a running loop.
EnvModes == {"no_loop", "not_running", "running"}

Min(a, b) == IF a < b THEN a ELSE b
Max(a, b) == IF a > b THEN a ELSE b

RECURSIVE Pow2(_)
Pow2(n) == IF n = 0 THEN 1 ELSE 2 * Pow2(n - 1)

RECURSIVE SeqMax(_)
SeqMax(s) == IF Len(s) = 1 THEN s[1] ELSE Max(s[1], SeqMax(Tail(s)))

SelectYoung(s) == SelectSeq(s, LAMBDA a : a < WindowSeconds)

\* ------------------------------------------------------------ the gate
UpstreamErrors == [msg : ErrorMessages, type : ExceptionTypes]

Raised(e) == [kind |-> "raised", exc |-> e]
Returned == [kind |-> "result", exc |-> NoException]

\* RuntimeError("asyncio.run() cannot be called from a running event loop")
AsyncioRunError ==
  [msg |-> "other", type |-> "RuntimeError", origin |-> "asyncio", id |-> 0]

SemAcquireNoLimit(value, waiters, c) ==
  [value |-> value - 1, waiters |-> waiters, granted |-> TRUE]

\* asyncio.Semaphore.acquire: take a slot, or queue behind the waiters.
SemAcquire(value, waiters, c) ==
  IF value > 0 /\ waiters = <<>>
  THEN [value |-> value - 1, waiters |-> waiters, granted |-> TRUE]
  ELSE [value |-> value, waiters |-> Append(waiters, c), granted |-> FALSE]

\* A release that gives the slot to a waiter but loses it when nobody waits.
SemReleaseLeak(value, waiters) ==
  IF waiters # <<>>
  THEN [value |-> value, waiters |-> Tail(waiters), woken |-> Head(waiters)]
  ELSE [value |-> value, waiters |-> waiters, woken |-> 0]

\* asyncio.Semaphore.release: the slot goes to the first waiter, if any.
SemRelease(value, waiters) ==
  IF waiters # <<>>
  THEN [value |-> value, waiters |-> Tail(waiters), woken |-> Head(waiters)]
  ELSE [value |-> value + 1, waiters |-> waiters, woken |-> 0]

WindowFullOffByOne(young) == Len(young) > requests_per_minute

\* "if len(self._request_times) >= self.requests_per_minute"
WindowFull(young) == Len(young) >= requests_per_minute

\* asyncio.Lock is not reentrant: the owner itself cannot take it again.
LockAvailable(c) == lock_holder = 0

\* wait_time without the extra delay of the rate-limit branch.
BackoffDelayNoExtra(msg, k) == base_retry_delay * Pow2(k)

\* wait_time of the retry loop after failed attempt k.
BackoffDelay(msg, k) ==
  IF msg = "rate_limit" THEN base_retry_delay * Pow2(k) + k * 5
  ELSE base_retry_delay * Pow2(k)

Retryable(msg) == msg \in {"rate_limit", "server_error"}

\* Does the "except RuntimeError" of invoke start the fallback run?
FallbackRuns(c, out) ==
  /\ out.kind = "raised"
  /\ out.exc.type = "RuntimeError"
  /\ env_mode[c] = "not_running"
  /\ run_no[c] = 1

\* What invoke hands to its caller once no further run is started.
InvokeOutcome(c, out) ==
  IF /\ out.kind = "raised"
     /\ out.exc.type = "RuntimeError"
     /\ env_mode[c] = "running"
  THEN Raised(AsyncioRunError)
  ELSE out

\* invoke is called: get_event_loop decides the branch, ainvoke asks for a slot.
GateInvoke(c, modes) ==
  /\ pc[c] = "idle"
  /\ invocations < MaxInvocations
  /\ \E m \in modes : env_mode' = [env_mode EXCEPT ![c] = m]
  /\ LET a == SemAcquire(sem_value, sem_waiters, c) IN
       /\ sem_value' = a.value
       /\ sem_waiters' = a.waiters
       /\ pc' = [pc EXCEPT ![c] = IF a.granted THEN "admitted" ELSE "sem_wait"]
  /\ run_no' = [run_no EXCEPT ![c] = 1]
  /\ calls' = [calls EXCEPT ![c] = 0]
  /\ sleeps' = [sleeps EXCEPT ![c] = 0]
  /\ outcome' = [outcome EXCEPT ![c] = NoOutcome]
  /\ last_exception' = [last_exception EXCEPT ![c] = NoException]
  /\ invocations' = invocations + 1
  /\ UNCHANGED <<attempt, sleep_left, lock_holder, request_times,
                 total_requests, attempts_made>>

\* invoke called by a thread that is not inside process_query.
Invoke(c, modes) ==
  /\ GateInvoke(c, modes)
  /\ UNCHANGED pipeVars

\* _make_request_with_retry up to the retry loop: the proactive throttle.  The
\* monitor's five-minute log is not kept, so its verdict is an input.
BeginRequest(c, verdicts) ==
  /\ UNCHANGED pipeVars
  /\ pc[c] = "admitted"
  /\ last_exception' = [last_exception EXCEPT ![c] = NoException]
  /\ attempt' = [attempt EXCEPT ![c] = 0]
  /\ sleeps' = [sleeps EXCEPT ![c] = 0]
  /\ \E throttle \in verdicts :
       IF throttle
       THEN \E d \in ThrottleDelays :
              /\ pc' = [pc EXCEPT ![c] = "throttle"]
              /\ sleep_left' = [sleep_left EXCEPT ![c] = d]
       ELSE /\ pc' = [pc EXCEPT ![c] = "check"]
            /\ sleep_left' = [sleep_left EXCEPT ![c] = 0]
  /\ UNCHANGED <<env_mode, run_no, calls, outcome, sem_value, sem_waiters,
                 lock_holder, request_times, total_requests, attempts_made,
                 invocations>>

ThrottleWake(c) ==
  /\ UNCHANGED pipeVars
  /\ pc[c] = "throttle"
  /\ sleep_left[c] < TickStep
  /\ pc' = [pc EXCEPT ![c] = "check"]
  /\ sleep_left' = [sleep_left EXCEPT ![c] = 0]
  /\ UNCHANGED <<env_mode, run_no, attempt, last_exception, calls, sleeps,
                 outcome, sem_value, sem_waiters, lock_holder, request_times,
                 total_requests, attempts_made, invocations>>

\* _check_rate_limit once the lock is obtained.
CheckRateLimit(c) ==
  /\ UNCHANGED pipeVars
  /\ pc[c] = "check"
  /\ LockAvailable(c)
  /\ LET young == SelectYoung(request_times)
         full == WindowFull(young)
         wait_time == IF full THEN WindowSeconds - SeqMax(young) ELSE 0
     IN IF full /\ wait_time > 0
        THEN /\ lock_holder' = c
             /\ request_times' = young
             /\ pc' = [pc EXCEPT ![c] = "rl_sleep"]
             /\ sleep_left' = [sleep_left EXCEPT ![c] = wait_time]
        ELSE /\ lock_holder' = 0
             /\ request_times' = Append(young, 0)
             /\ pc' = [pc EXCEPT ![c] = "upstream"]
             /\ sleep_left' = sleep_left
  /\ UNCHANGED <<env_mode, run_no, attempt, last_exception, calls, sleeps,
                 outcome, sem_value, sem_waiters, total_requests,
                 attempts_made, invocations>>

\* The sleep inside _check_rate_limit is over: the recursive call, made while
\* the lock is still held by this very caller.
RateLimitWake(c) ==
  /\ UNCHANGED pipeVars
  /\ pc[c] = "rl_sleep"
  /\ sleep_left[c] < TickStep
  /\ pc' = [pc EXCEPT ![c] = "check"]
  /\ sleep_left' = [sleep_left EXCEPT ![c] = 0]
  /\ UNCHANGED <<env_mode, run_no, attempt, last_exception, calls, sleeps,
                 outcome, sem_value, sem_waiters, lock_holder, request_times,
                 total_requests, attempts_made, invocations>>

\* A run of ainvoke ends with out: the slot is released, the locals of
\* _make_request_with_retry are gone, and invoke either starts its fallback run
\* or hands the outcome to its caller.
FinishRun(c, out) ==
  LET r == SemRelease(sem_value, sem_waiters)
      pc1 == IF r.woken # 0 THEN [pc EXCEPT ![r.woken] = "admitted"] ELSE pc
  IN /\ attempt' = [attempt EXCEPT ![c] = 0]
     /\ last_exception' = [last_exception EXCEPT ![c] = NoException]
     /\ sleep_left' = [sleep_left EXCEPT ![c] = 0]
     /\ sleeps' = [sleeps EXCEPT ![c] = 0]
     /\ IF FallbackRuns(c, out)
        THEN LET a == SemAcquire(r.value, r.waiters, c) IN
             /\ sem_value' = a.value
             /\ sem_waiters' = a.waiters
             /\ pc' = [pc1 EXCEPT ![c] = IF a.granted THEN "admitted" ELSE "sem_wait"]
             /\ run_no' = [run_no EXCEPT ![c] = 2]
             /\ UNCHANGED <<env_mode, outcome>>
        ELSE /\ sem_value' = r.value
             /\ sem_waiters' = r.waiters
             /\ pc' = [pc1 EXCEPT ![c] = "idle"]
             /\ run_no' = [run_no EXCEPT ![c] = 1]
             /\ env_mode' = [env_mode EXCEPT ![c] = "no_loop"]
             /\ outcome' = [outcome EXCEPT ![c] = InvokeOutcome(c, out)]

\* The upstream call returns a result.
UpstreamSuccess(c) ==
  /\ UNCHANGED pipeVars
  /\ pc[c] = "upstream"
  /\ calls' = [calls EXCEPT ![c] = @ + 1]
  /\ attempts_made' = attempts_made + 1
  /\ total_requests' = total_requests + 1
  /\ FinishRun(c, Returned)
  /\ UNCHANGED <<lock_holder, request_times, invocations>>

\* The upstream call raises: the except branch of the retry loop.
UpstreamError(c, errors) ==
  /\ UNCHANGED pipeVars
  /\ pc[c] = "upstream"
  /\ \E u \in errors :
       LET e == [msg |-> u.msg, type |-> u.type, origin |-> "upstream",
                 id |-> calls[c] + 1]
       IN IF Retryable(u.msg)
          THEN /\ last_exception' = [last_exception EXCEPT ![c] = e]
               /\ pc' = [pc EXCEPT ![c] = "backoff"]
               /\ sleep_left' = [sleep_left EXCEPT ![c] = BackoffDelay(u.msg, attempt[c])]
               /\ sleeps' = [sleeps EXCEPT ![c] = @ + 1]
               /\ UNCHANGED <<attempt, env_mode, run_no, outcome, sem_value,
                              sem_waiters>>
          ELSE FinishRun(c, Raised(e))
  /\ calls' = [calls EXCEPT ![c] = @ + 1]
  /\ attempts_made' = attempts_made + 1
  /\ total_requests' = total_requests + 1
  /\ UNCHANGED <<lock_holder, request_times, invocations>>

\* The backoff sleep is over: the next attempt, or the end of the loop.
BackoffWake(c) ==
  /\ UNCHANGED pipeVars
  /\ pc[c] = "backoff"
  /\ sleep_left[c] < TickStep
  /\ IF attempt[c] + 1 < retry_attempts
     THEN /\ attempt' = [attempt EXCEPT ![c] = @ + 1]
          /\ pc' = [pc EXCEPT ![c] = "check"]
          /\ sleep_left' = [sleep_left EXCEPT ![c] = 0]
          /\ UNCHANGED <<last_exception, sleeps, env_mode, run_no, outcome,
                         sem_value, sem_waiters, total_requests>>
     ELSE /\ total_requests' = total_requests + 1
          /\ FinishRun(c, Raised(last_exception[c]))
  /\ UNCHANGED <<calls, lock_holder, request_times, attempts_made, invocations>>

Sleeping(c) == pc[c] \in {"throttle", "rl_sleep", "backoff"}

\* The clock advances by one quantum.
Tick ==
  /\ UNCHANGED pipeVars
  /\ request_times' =
       [i \in 1..Len(request_times) |->
          Min(request_times[i] + TickStep, WindowSeconds)]
  /\ sleep_left' =
       [c \in Callers |->
          IF Sleeping(c) THEN Max(sleep_left[c] - TickStep, 0) ELSE sleep_left[c]]
  /\ UNCHANGED <<pc, env_mode, run_no, attempt, last_exception, calls, sleeps,
                 outcome, sem_value, sem_waiters, lock_holder, total_requests,
                 attempts_made, invocations>>

\* ====================================================================
\* The intent classifier (Agent/langgraph_orchestrator.py, Utils/constants.py)
\* ====================================================================
\* Texts are sequences of one-character strings, so that lower-casing and
\* substring search are computed as Python computes them.

EMERGENCY_KEYWORDS ==
  << <<"e","m","e","r","g","e","n","c","y">>,
     <<"u","r","g","e","n","t">>,
     <<"h","e","l","p">>,
     <<"b","l","e","e","d","i","n","g"," ","h","e","a","v","i","l","y">>,
     <<"s","e","v","e","r","e"," ","p","a","i","n">>,
     <<"c","a","n","'","t"," ","b","r","e","a","t","h","e">>,
     <<"c","h","e","s","t"," ","p","a","i","n">>,
     <<"d","i","z","z","y">>,
     <<"f","a","i","n","t">>,
     <<"c","o","n","t","r","a","c","t","i","o","n","s">>,
     <<"w","a","t","e","r"," ","b","r","o","k","e">>,
     <<"b","a","b","y"," ","n","o","t"," ","m","o","v","i","n","g">>,
     <<"h","i","g","h"," ","b","l","o","o","d"," ","p","r","e","s","s","u","r","e">>,
     <<"s","e","v","e","r","e"," ","h","e","a","d","a","c","h","e">>,
     <<"v","i","s","i","o","n"," ","p","r","o","b","l","e","m","s">>,
     <<"9","1","1">>,
     <<"9","9","9">>,
     <<"h","o","s","p","i","t","a","l">> >>

nutrition_indicators ==
  << <<"f","o","o","d">>,
     <<"e","a","t">>,
     <<"d","i","e","t">>,
     <<"n","u","t","r","i","t","i","o","n">>,
     <<"m","e","a","l">>,
     <<"h","u","n","g","r","y">>,
     <<"a","p","p","e","t","i","t","e">>,
     <<"v","i","t","a","m","i","n">>,
     <<"r","e","c","i","p","e">>,
     <<"b","r","e","a","k","f","a","s","t">>,
     <<"l","u","n","c","h">>,
     <<"d","i","n","n","e","r">> >>

exercise_indicators ==
  << <<"e","x","e","r","c","i","s","e">>,
     <<"w","o","r","k","o","u","t">>,
     <<"y","o","g","a">>,
     <<"w","a","l","k">>,
     <<"f","i","t","n","e","s","s">>,
     <<"a","c","t","i","v","e">>,
     <<"m","o","v","e","m","e","n","t">>,
     <<"s","t","r","e","t","c","h">> >>

mood_keywords ==
  << <<"f","e","e","l">>,
     <<"f","e","e","l","i","n","g">>,
     <<"s","a","d">>,
     <<"d","e","p","r","e","s","s","e","d">>,
     <<"a","n","x","i","o","u","s">>,
     <<"w","o","r","r","i","e","d">>,
     <<"s","c","a","r","e","d">>,
     <<"u","p","s","e","t">>,
     <<"e","m","o","t","i","o","n","a","l">>,
     <<"m","o","o","d">>,
     <<"s","t","r","e","s","s">> >>

scheduling_indicators ==
  << <<"a","p","p","o","i","n","t","m","e","n","t">>,
     <<"s","c","h","e","d","u","l","e">>,
     <<"v","i","s","i","t">>,
     <<"c","h","e","c","k","u","p">>,
     <<"d","o","c","t","o","r">>,
     <<"a","n","c">>,
     <<"w","h","e","n"," ","s","h","o","u","l","d">> >>

UpperCase == <<"A","B","C","D","E","F","G","H","I","J","K","L","M","N","O","P","Q","R","S","T","U","V","W","X","Y","Z">>

LowerCase == <<"a","b","c","d","e","f","g","h","i","j","k","l","m","n","o","p","q","r","s","t","u","v","w","x","y","z">>

\* str.lower on the characters the inputs are made of.
LowerChar(ch) ==
  IF \E i \in 1..Len(UpperCase) : UpperCase[i] = ch
  THEN LowerCase[CHOOSE i \in 1..Len(UpperCase) : UpperCase[i] = ch]
  ELSE ch

Lower(text) == [i \in 1..Len(text) |-> LowerChar(text[i])]

\* Python's `keyword in text`: keyword is a contiguous substring of text.
Contains(text, keyword) ==
  \E i \in 1..(Len(text) - Len(keyword) + 1) :
    SubSeq(text, i, i + Len(keyword) - 1) = keyword

\* any(keyword in user_input for keyword in keywords)
AnyKeyword(user_input, keywords) ==
  \E k \in 1..Len(keywords) : Contains(user_input, keywords[k])

\* intent_classifier with the nutrition test moved in front of the emergency
\* test.
IntentClassifierNutritionFirst(text) ==
  LET user_input == Lower(text) IN
  IF AnyKeyword(user_input, nutrition_indicators)
  THEN [goto |-> "nutrition_worker", intent |-> "nutrition"]
  ELSE IF AnyKeyword(user_input, EMERGENCY_KEYWORDS)
  THEN [goto |-> "emergency_worker", intent |-> "emergency"]
  ELSE IF AnyKeyword(user_input, exercise_indicators)
  THEN [goto |-> "exercise_worker", intent |-> "exercise"]
  ELSE IF AnyKeyword(user_input, mood_keywords)
  THEN [goto |-> "mood_support_worker", intent |-> "mood_support"]
  ELSE IF AnyKeyword(user_input, scheduling_indicators)
  THEN [goto |-> "scheduling_worker", intent |-> "scheduling"]
  ELSE [goto |-> "general_worker", intent |-> "general_health"]

\* intent_classifier whose default branch routes without writing the intent.
IntentClassifierUnsetDefault(text) ==
  LET user_input == Lower(text) IN
  IF AnyKeyword(user_input, EMERGENCY_KEYWORDS)
  THEN [goto |-> "emergency_worker", intent |-> "emergency"]
  ELSE IF AnyKeyword(user_input, nutrition_indicators)
  THEN [goto |-> "nutrition_worker", intent |-> "nutrition"]
  ELSE IF AnyKeyword(user_input, exercise_indicators)
  THEN [goto |-> "exercise_worker", intent |-> "exercise"]
  ELSE IF AnyKeyword(user_input, mood_keywords)
  THEN [goto |-> "mood_support_worker", intent |-> "mood_support"]
  ELSE IF AnyKeyword(user_input, scheduling_indicators)
  THEN [goto |-> "scheduling_worker", intent |-> "scheduling"]
  ELSE [goto |-> "general_worker", intent |-> ""]

\* The classifier sending every input to the general worker while recording
\* the intent it found.
IntentClassifierGeneralGoto(text) ==
  LET user_input == Lower(text) IN
  IF AnyKeyword(user_input, EMERGENCY_KEYWORDS)
  THEN [goto |-> "general_worker", intent |-> "emergency"]
  ELSE IF AnyKeyword(user_input, nutrition_indicators)
  THEN [goto |-> "general_worker", intent |-> "nutrition"]
  ELSE IF AnyKeyword(user_input, exercise_indicators)
  THEN [goto |-> "general_worker", intent |-> "exercise"]
  ELSE IF AnyKeyword(user_input, mood_keywords)
  THEN [goto |-> "general_worker", intent |-> "mood_support"]
  ELSE IF AnyKeyword(user_input, scheduling_indicators)
  THEN [goto |-> "general_worker", intent |-> "scheduling"]
  ELSE [goto |-> "general_worker", intent |-> "general_health"]

\* intent_classifier: the Command it returns, as its goto and the intent it
\* writes.
IntentClassifier(text) ==
  LET user_input == Lower(text) IN
  IF AnyKeyword(user_input, EMERGENCY_KEYWORDS)
  THEN [goto |-> "emergency_worker", intent |-> "emergency"]
  ELSE IF AnyKeyword(user_input, nutrition_indicators)
  THEN [goto |-> "nutrition_worker", intent |-> "nutrition"]
  ELSE IF AnyKeyword(user_input, exercise_indicators)
  THEN [goto |-> "exercise_worker", intent |-> "exercise"]
  ELSE IF AnyKeyword(user_input, mood_keywords)
  THEN [goto |-> "mood_support_worker", intent |-> "mood_support"]
  ELSE IF AnyKeyword(user_input, scheduling_indicators)
  THEN [goto |-> "scheduling_worker", intent |-> "scheduling"]
  ELSE [goto |-> "general_worker", intent |-> "general_health"]

\* The user inputs explored: up to MaxWords words of this vocabulary, separated
\* by single spaces.  The words are chosen so that keywords are met in upper
\* case ("HELP", "Eat", "Yoga"), inside longer words ("weather" holds "eat",
\* "pregnancy" holds "anc"), across a space ("severe pain") and not at all
\* ("hello").
Vocabulary ==
  { <<"H","E","L","P">>,
    <<"s","e","v","e","r","e">>,
    <<"p","a","i","n">>,
    <<"E","a","t">>,
    <<"w","e","a","t","h","e","r">>,
    <<"Y","o","g","a">>,
    <<"s","a","d">>,
    <<"v","i","s","i","t">>,
    <<"p","r","e","g","n","a","n","c","y">>,
    <<"h","e","l","l","o">> }

RECURSIVE Sentences(_)
Sentences(n) ==
  IF n <= 1 THEN Vocabulary
  ELSE LET shorter == Sentences(n - 1)
       IN  shorter \cup {s \o <<" ">> \o w : s \in shorter, w \in Vocabulary}

UserInputs == Sentences(MaxWords)

\* ====================================================================
\* The query pipeline (Agent/langgraph_orchestrator.py)
\* ====================================================================
\* One orchestrator serves one UI session, whose thread is caller 1 of the
\* gate.  A reply is the sequence of the text fragments it is concatenated
\* from, so the empty string is <<>>.  The graph is run as LangGraph documents
\* it: a node that both returns Command(goto=n) and has an edge to n makes n
\* run once.

\* None for current_profile and current_medical_state.
NoProfile == [present |-> FALSE, age |-> 0]

NoMedicalState == [present |-> FALSE, current_week |-> 0, trimester |-> 0]

FIRST_TRIMESTER_END == 12
SECOND_TRIMESTER_END == 28

\* _calculate_medical_state: the trimester of a week of pregnancy.
Trimester(current_week) ==
  IF current_week <= FIRST_TRIMESTER_END THEN 1
  ELSE IF current_week <= SECOND_TRIMESTER_END THEN 2
  ELSE 3

\* What set_profile can have left in the context manager before a query: nothing,
\* or a profile with the medical state of its week.
StoredWeeks == {30}

StoredContexts ==
  {[profile |-> NoProfile, medical_state |-> NoMedicalState]} \cup
  {[profile |-> [present |-> TRUE, age |-> 25],
    medical_state |-> [present |-> TRUE, current_week |-> w,
                       trimester |-> Trimester(w)]] : w \in StoredWeeks}

\* process_query starting the graph without the stored profile and medical
\* state.
NewStateBlank(text) ==
  [user_input |-> text, patient_profile |-> NoProfile,
   medical_state |-> NoMedicalState, intent |-> "",
   context_data |-> <<>>, final_response |-> <<>>]

\* process_query's initial ConversationState.
NewState(text) ==
  [user_input |-> text, patient_profile |-> current_profile,
   medical_state |-> current_medical_state, intent |-> "",
   context_data |-> <<>>, final_response |-> <<>>]

\* No query is running.
BlankState ==
  [user_input |-> <<>>, patient_profile |-> NoProfile,
   medical_state |-> NoMedicalState, intent |-> "",
   context_data |-> <<>>, final_response |-> <<>>]

\* The reducer of context_data.
OperatorAdd(old, update) == old \o update

\* The lists the video search can return.
VideoResults == {<<>>, <<"video">>}

\* The video search returns a list or raises.
VideoSearchOutcomes ==
  {[kind |-> "result", videos |-> v] : v \in VideoResults} \cup
  {[kind |-> "raised", videos |-> <<>>]}

\* "videos = []; try: videos = search(...) except Exception: warning"
VideosOf(search) == IF search.kind = "raised" THEN <<>> ELSE search.videos

standard_weeks == <<20, 26, 30, 34, 36, 38, 40>>

\* _get_next_anc_visits keeping the visit of the current week.
GetNextAncVisitsInclusive(current_week) ==
  LET next_visits == SelectSeq(standard_weeks, LAMBDA week : week >= current_week)
      first3 == SubSeq(next_visits, 1, Min(3, Len(next_visits)))
  IN  [i \in 1..Len(first3) |->
         [week |-> first3[i],
          weeks_ahead |-> first3[i] - current_week,
          type |-> IF first3[i] \in {26, 34} THEN "screening" ELSE "routine",
          priority |-> IF first3[i] \in {26, 34, 36} THEN "high" ELSE "medium"]]

\* _get_next_anc_visits; a visit's date is kept as its distance in weeks.
GetNextAncVisits(current_week) ==
  LET next_visits == SelectSeq(standard_weeks, LAMBDA week : week > current_week)
      first3 == SubSeq(next_visits, 1, Min(3, Len(next_visits)))
  IN  [i \in 1..Len(first3) |->
         [week |-> first3[i],
          weeks_ahead |-> first3[i] - current_week,
          type |-> IF first3[i] \in {26, 34} THEN "screening" ELSE "routine",
          priority |-> IF first3[i] \in {26, 34, 36} THEN "high" ELSE "medium"]]

\* _get_trimester_foods and _get_safe_exercises: the list that is picked.
ByTrimester(trimester) == IF trimester \in {1, 2, 3} THEN trimester ELSE 2

\* nutrition_worker reading the medical state without its "if medical_state"
\* guards: with none stored the read raises and the except branch answers.
NutritionWorkerUpdateNoDefaults(st) ==
  LET ms == st.medical_state
  IN  IF ms.present
      THEN << [type |-> "nutrition_info", error |-> "",
               trimester |-> ms.trimester,
               week |-> ms.current_week,
               context |-> IF st.patient_profile.present
                           THEN "patient" ELSE "No specific patient context",
               foods_to_focus |-> ByTrimester(ms.trimester),
               user_query |-> st.user_input] >>
      ELSE << [type |-> "nutrition_info", error |-> "AttributeError"] >>

\* The context_data each worker's Command writes.
NutritionWorkerUpdate(st) ==
  LET ms == st.medical_state
      trimester == IF ms.present THEN ms.trimester ELSE 2
  IN  << [type |-> "nutrition_info", error |-> "",
          trimester |-> trimester,
          week |-> IF ms.present THEN ms.current_week ELSE 20,
          context |-> IF st.patient_profile.present /\ ms.present
                      THEN "patient" ELSE "No specific patient context",
          foods_to_focus |-> ByTrimester(trimester),
          user_query |-> st.user_input] >>

\* exercise_worker in which a failing video search ends in the except branch of
\* the worker.
ExerciseWorkerUpdateSearchFatal(st, search) ==
  LET ms == st.medical_state
      trimester == IF ms.present THEN ms.trimester ELSE 2
  IN  IF search.kind = "raised"
      THEN << [type |-> "exercise_info", error |-> "video search failed"] >>
      ELSE << [type |-> "exercise_info", error |-> "",
               trimester |-> trimester,
               week |-> IF ms.present THEN ms.current_week ELSE 20,
               videos |-> search.videos,
               safe_exercises |-> ByTrimester(trimester),
               user_query |-> st.user_input] >>

ExerciseWorkerUpdate(st, search) ==
  LET ms == st.medical_state
      trimester == IF ms.present THEN ms.trimester ELSE 2
  IN  << [type |-> "exercise_info", error |-> "",
          trimester |-> trimester,
          week |-> IF ms.present THEN ms.current_week ELSE 20,
          videos |-> VideosOf(search),
          safe_exercises |-> ByTrimester(trimester),
          user_query |-> st.user_input] >>

MoodSupportWorkerUpdate(st, search) ==
  << [type |-> "mood_support_info", error |-> "", videos |-> VideosOf(search),
      user_query |-> st.user_input] >>

\* scheduling_worker that writes nothing when there is no medical state.
SchedulingWorkerUpdateSilent(st) ==
  IF ~st.medical_state.present
  THEN <<>>
  ELSE << [type |-> "scheduling_info", error |-> "",
           current_week |-> st.medical_state.current_week,
           next_visits |-> GetNextAncVisits(st.medical_state.current_week),
           user_query |-> st.user_input] >>

SchedulingWorkerUpdate(st) ==
  IF ~st.medical_state.present
  THEN << [type |-> "scheduling_info",
           error |-> "No medical state available"] >>
  ELSE << [type |-> "scheduling_info", error |-> "",
           current_week |-> st.medical_state.current_week,
           next_visits |-> GetNextAncVisits(st.medical_state.current_week),
           user_query |-> st.user_input] >>

EmergencyWorkerUpdate(st) ==
  << [type |-> "emergency_info", error |-> "",
      emergency_numbers |-> {"999", "16263"},
      user_query |-> st.user_input] >>

GeneralWorkerUpdate(st) ==
  << [type |-> "general_health_info", error |-> "",
      user_query |-> st.user_input] >>

\* next((data for data in context_data if data.get("type") == type), {})
FactOfType(context_data, type) ==
  LET found == SelectSeq(context_data, LAMBDA data : data.type = type)
  IN  IF found = <<>> THEN [type |-> "", error |-> ""] ELSE Head(found)

\* The worker fact a renderer looks up, by the orchestrator's branch.
RendererFact(st) ==
  FactOfType(st.context_data,
             CASE st.intent = "nutrition" -> "nutrition_info"
               [] st.intent = "exercise" -> "exercise_info"
               [] st.intent = "scheduling" -> "scheduling_info"
               [] OTHER -> "")

\* The renderers that answer without the model when their fact holds an error.
RepliesEarly(st) ==
  /\ st.intent \in {"nutrition", "exercise", "scheduling"}
  /\ RendererFact(st).error # ""

EarlyReply(st) ==
  CASE st.intent = "nutrition" -> <<"NUTRITION_ERROR">>
    [] st.intent = "exercise" -> <<"exercise_error_reply">>
    [] st.intent = "scheduling" -> <<"SCHEDULE_ERROR">>

\* What the model's message can hold: nothing, a <think> block, text, or both.
Contents == {<<>>, <<"<think>">>, <<"text">>, <<"<think>", "text">>}

\* OutputProcessors.clean_all_llm_responses: "" for an empty message, else the
\* message without its <think> blocks.
CleanAllLlmResponses(raw_response) ==
  IF raw_response = <<>> THEN <<>>
  ELSE SelectSeq(raw_response, LAMBDA part : part # "<think>")

\* The renderers with the general one lacking its except branch: the gate's
\* exception goes up to the orchestrator node's handler.
RenderGeneralUnhandled(intent, out, content) ==
  LET cleared_response == CleanAllLlmResponses(content) IN
  CASE intent = "emergency" ->
         IF out.kind = "raised" THEN <<"emergency_fallback">>
         ELSE cleared_response \o <<"emergency_footer">>
    [] intent = "nutrition" ->
         IF out.kind = "raised" THEN <<"nutrition_fallback">>
         ELSE cleared_response
    [] intent = "exercise" ->
         IF out.kind = "raised" THEN <<"exercise_fallback">>
         ELSE cleared_response
    [] intent = "mood_support" ->
         IF out.kind = "raised" THEN <<"mood_fallback">>
         ELSE cleared_response \o <<"support_footer">>
    [] intent = "scheduling" ->
         IF out.kind = "raised" THEN <<"scheduling_fallback">>
         ELSE cleared_response
    [] OTHER ->
         IF out.kind = "raised" THEN <<"orchestrator_apology">>
         ELSE cleared_response

\* The renderers with the emergency footer left out.
RenderNoFooter(intent, out, content) ==
  LET cleared_response == CleanAllLlmResponses(content) IN
  CASE intent = "emergency" ->
         IF out.kind = "raised" THEN <<"emergency_fallback">>
         ELSE cleared_response
    [] intent = "nutrition" ->
         IF out.kind = "raised" THEN <<"nutrition_fallback">>
         ELSE cleared_response
    [] intent = "exercise" ->
         IF out.kind = "raised" THEN <<"exercise_fallback">>
         ELSE cleared_response
    [] intent = "mood_support" ->
         IF out.kind = "raised" THEN <<"mood_fallback">>
         ELSE cleared_response \o <<"support_footer">>
    [] intent = "scheduling" ->
         IF out.kind = "raised" THEN <<"scheduling_fallback">>
         ELSE cleared_response
    [] OTHER ->
         IF out.kind = "raised" THEN <<"general_fallback">>
         ELSE cleared_response

\* The renderers from their call of the gate on: the reply for what invoke
\* returned or raised.
Render(intent, out, content) ==
  LET cleared_response == CleanAllLlmResponses(content) IN
  CASE intent = "emergency" ->
         IF out.kind = "raised" THEN <<"emergency_fallback">>
         ELSE cleared_response \o <<"emergency_footer">>
    [] intent = "nutrition" ->
         IF out.kind = "raised" THEN <<"nutrition_fallback">>
         ELSE cleared_response
    [] intent = "exercise" ->
         IF out.kind = "raised" THEN <<"exercise_fallback">>
         ELSE cleared_response
    [] intent = "mood_support" ->
         IF out.kind = "raised" THEN <<"mood_fallback">>
         ELSE cleared_response \o <<"support_footer">>
    [] intent = "scheduling" ->
         IF out.kind = "raised" THEN <<"scheduling_fallback">>
         ELSE cleared_response
    [] OTHER ->
         IF out.kind = "raised" THEN <<"general_fallback">>
         ELSE cleared_response

\* The telephone numbers written in the fixed texts; the model's own text is
\* not relied on for any.
NumbersOfFragment(fragment) ==
  IF fragment \in {"emergency_footer", "emergency_fallback"}
  THEN {"999", "16263"}
  ELSE {}

NumbersIn(reply) == UNION {NumbersOfFragment(reply[i]) : i \in 1..Len(reply)}

\* ====================================================================
\* The patient context (PatientContextManager, PatientProfile, MedicalState)
\* ====================================================================
\* A calendar date is <<year, month, day>>, the fields of its "%Y-%m-%d" text;
\* a day count is datetime's proleptic Gregorian ordinal.  lmp_date is a record:
\* kind "missing" (no string was given), "unknown" (the sentinel), "text" (a
\* string that is not three numbers with dashes) or "date" (such a string, ymd
\* its numbers, which need not be a day of the calendar).

MIN_PATIENT_AGE == 18
MAX_PATIENT_AGE == 60
PREGNANCY_DURATION_DAYS == 280
DEFAULT_CURRENT_WEEK == 0
DEFAULT_TRIMESTER == 1

IsLeap(y) == (y % 4 = 0) /\ ((y % 100 # 0) \/ (y % 400 = 0))

DaysInMonth(y, m) ==
  IF m = 2 THEN (IF IsLeap(y) THEN 29 ELSE 28)
  ELSE IF m \in {4, 6, 9, 11} THEN 30
  ELSE 31

\* strptime accepts the numbers only when they are a day of the calendar.
ValidDate(ymd) ==
  /\ ymd[1] \in 1..9999
  /\ ymd[2] \in 1..12
  /\ ymd[3] \in 1..DaysInMonth(ymd[1], ymd[2])

DaysBeforeYear(y) ==
  365 * (y - 1) + ((y - 1) \div 4) - ((y - 1) \div 100) + ((y - 1) \div 400)

RECURSIVE DaysBeforeMonth(_, _)
DaysBeforeMonth(y, m) ==
  IF m <= 1 THEN 0 ELSE DaysBeforeMonth(y, m - 1) + DaysInMonth(y, m - 1)

\* The day count of a valid date.
ToOrdinal(ymd) == DaysBeforeYear(ymd[1]) + DaysBeforeMonth(ymd[1], ymd[2]) + ymd[3]

\* The date of a day count: the year and the month the count falls in, and the
\* day left over.
FromOrdinal(n) ==
  LET y == CHOOSE yy \in ((n - 1) \div 366 + 1)..((n - 1) \div 365 + 1) :
             DaysBeforeYear(yy) < n /\ n <= DaysBeforeYear(yy + 1)
      m == CHOOSE mm \in 1..12 :
             /\ DaysBeforeMonth(y, mm) < n - DaysBeforeYear(y)
             /\ n - DaysBeforeYear(y) <= DaysBeforeMonth(y, mm) + DaysInMonth(y, mm)
  IN  <<y, m, n - DaysBeforeYear(y) - DaysBeforeMonth(y, m)>>

\* No call of set_profile has been made.
NoProfileData == [age |-> 0, lmp_date |-> [kind |-> "none", ymd |-> <<>>]]

\* MedicalState(): the defaults of the model class.
DefaultMedicalState ==
  [present |-> TRUE, current_week |-> DEFAULT_CURRENT_WEEK,
   trimester |-> DEFAULT_TRIMESTER, due_date |-> <<>>, risk_level |-> "low",
   last_assessment |-> <<>>]

\* PatientProfile(**profile_data): passes when lmp_date is a string and age is
\* within the bounds of the field.
ValidProfile(profile_data) ==
  /\ profile_data.lmp_date.kind # "missing"
  /\ profile_data.age >= MIN_PATIENT_AGE
  /\ profile_data.age <= MAX_PATIENT_AGE

\* _calculate_medical_state with the day-of-month check of strptime left out.
CalculateMedicalStateLenient(profile, now) ==
  IF profile.lmp_date.kind = "unknown" THEN DefaultMedicalState
  ELSE IF profile.lmp_date.kind # "date" THEN DefaultMedicalState
  ELSE LET lmp == ToOrdinal(profile.lmp_date.ymd)
           days_pregnant == now - lmp
           current_week == days_pregnant \div 7
       IN  [present |-> TRUE, current_week |-> current_week,
            trimester |-> Trimester(current_week),
            due_date |-> FromOrdinal(lmp + PREGNANCY_DURATION_DAYS),
            risk_level |-> "low", last_assessment |-> <<>>]

\* _calculate_medical_state that counts the weeks from the due date.
CalculateMedicalStateFromDue(profile, now) ==
  IF profile.lmp_date.kind = "unknown" THEN DefaultMedicalState
  ELSE IF profile.lmp_date.kind # "date" \/ ~ValidDate(profile.lmp_date.ymd)
  THEN DefaultMedicalState
  ELSE LET lmp == ToOrdinal(profile.lmp_date.ymd)
           days_pregnant == now - (lmp + PREGNANCY_DURATION_DAYS)
           current_week == days_pregnant \div 7
       IN  [present |-> TRUE, current_week |-> current_week,
            trimester |-> Trimester(current_week),
            due_date |-> FromOrdinal(lmp + PREGNANCY_DURATION_DAYS),
            risk_level |-> "low", last_assessment |-> <<>>]

\* _calculate_medical_state that reads the week and the trimester off the age
\* when the date is unknown.
CalculateMedicalStateByAge(profile, now) ==
  IF profile.lmp_date.kind = "unknown"
  THEN [DefaultMedicalState EXCEPT
          !.current_week = profile.age - MIN_PATIENT_AGE]
  ELSE IF profile.lmp_date.kind # "date" \/ ~ValidDate(profile.lmp_date.ymd)
  THEN DefaultMedicalState
  ELSE LET lmp == ToOrdinal(profile.lmp_date.ymd)
           days_pregnant == now - lmp
           current_week == days_pregnant \div 7
       IN  [present |-> TRUE, current_week |-> current_week,
            trimester |-> Trimester(current_week),
            due_date |-> FromOrdinal(lmp + PREGNANCY_DURATION_DAYS),
            risk_level |-> "low", last_assessment |-> <<>>]

\* _calculate_medical_state on the day `now`: the sentinel and a date strptime
\* rejects (ValueError) give the defaults; (today - lmp).days is the difference
\* of the day counts, also when it is negative, and // rounds down.
CalculateMedicalState(profile, now) ==
  IF profile.lmp_date.kind = "unknown" THEN DefaultMedicalState
  ELSE IF profile.lmp_date.kind # "date" \/ ~ValidDate(profile.lmp_date.ymd)
  THEN DefaultMedicalState
  ELSE LET lmp == ToOrdinal(profile.lmp_date.ymd)
           days_pregnant == now - lmp
           current_week == days_pregnant \div 7
       IN  [present |-> TRUE, current_week |-> current_week,
            trimester |-> Trimester(current_week),
            due_date |-> FromOrdinal(lmp + PREGNANCY_DURATION_DAYS),
            risk_level |-> "low", last_assessment |-> <<>>]

\* set_profile whose except branch clears the profile only.
SetProfileResultHalf(profile_data, now, old_profile, old_medical_state) ==
  IF ~ValidProfile(profile_data)
  THEN [profile |-> NoProfile, medical_state |-> old_medical_state]
  ELSE [profile |-> [present |-> TRUE, age |-> profile_data.age,
                     lmp_date |-> profile_data.lmp_date],
        medical_state |-> CalculateMedicalState(profile_data, now)]

\* set_profile whose except branch keeps what was stored.
SetProfileResultKeep(profile_data, now, old_profile, old_medical_state) ==
  IF ~ValidProfile(profile_data)
  THEN [profile |-> old_profile, medical_state |-> old_medical_state]
  ELSE [profile |-> [present |-> TRUE, age |-> profile_data.age,
                     lmp_date |-> profile_data.lmp_date],
        medical_state |-> CalculateMedicalState(profile_data, now)]

\* set_profile: what it leaves in current_profile and current_medical_state.
SetProfileResult(profile_data, now, old_profile, old_medical_state) ==
  IF ~ValidProfile(profile_data)
  THEN [profile |-> NoProfile, medical_state |-> NoMedicalState]
  ELSE [profile |-> [present |-> TRUE, age |-> profile_data.age,
                     lmp_date |-> profile_data.lmp_date],
        medical_state |-> CalculateMedicalState(profile_data, now)]

\* A node of the graph has run.
Ran(node) == node_trace' = Append(node_trace, node)

\* process_query up to the start of the graph.
StartQuery(inputs, limit) ==
  /\ pq_pc = "idle"
  /\ pc[1] = "idle"
  /\ Len(conversation_history) < limit
  /\ invocations < MaxInvocations
  /\ \E text \in inputs : state' = NewState(text)
  /\ pq_pc' = "intent_classifier"
  /\ node_trace' = <<>>
  /\ UNCHANGED <<gateVars, current_profile, current_medical_state,
                 conversation_history, response, today,
                 last_profile_data,
                 chat_history, last_processed, submitted>>

\* The intent_classifier node.
Classify ==
  /\ pq_pc = "intent_classifier"
  /\ LET command == IntentClassifier(state.user_input)
     IN  /\ state' = [state EXCEPT !.intent = command.intent]
         /\ pq_pc' = command.goto
  /\ Ran("intent_classifier")
  /\ UNCHANGED <<gateVars, current_profile, current_medical_state,
                 conversation_history, response, today,
                 last_profile_data,
                 chat_history, last_processed, submitted>>

\* What a worker node's Command does: its update goes through the reducer and
\* the orchestrator is next.
WorkerCommand(node, update) ==
  /\ state' = [state EXCEPT !.context_data = OperatorAdd(@, update)]
  /\ pq_pc' = "orchestrator"
  /\ Ran(node)
  /\ UNCHANGED <<gateVars, current_profile, current_medical_state,
                 conversation_history, response, today,
                 last_profile_data,
                 chat_history, last_processed, submitted>>

NutritionWorker ==
  /\ pq_pc = "nutrition_worker"
  /\ WorkerCommand("nutrition_worker", NutritionWorkerUpdate(state))

ExerciseWorker ==
  /\ pq_pc = "exercise_worker"
  /\ \E search \in VideoSearchOutcomes :
       WorkerCommand("exercise_worker", ExerciseWorkerUpdate(state, search))

MoodSupportWorker ==
  /\ pq_pc = "mood_support_worker"
  /\ \E search \in VideoSearchOutcomes :
       WorkerCommand("mood_support_worker",
                     MoodSupportWorkerUpdate(state, search))

SchedulingWorker ==
  /\ pq_pc = "scheduling_worker"
  /\ WorkerCommand("scheduling_worker", SchedulingWorkerUpdate(state))

EmergencyWorker ==
  /\ pq_pc = "emergency_worker"
  /\ WorkerCommand("emergency_worker", EmergencyWorkerUpdate(state))

GeneralWorker ==
  /\ pq_pc = "general_worker"
  /\ WorkerCommand("general_worker", GeneralWorkerUpdate(state))

\* The orchestrator node when the renderer answers from the error in its fact.
OrchestratorReply ==
  /\ pq_pc = "orchestrator"
  /\ RepliesEarly(state)
  /\ state' = [state EXCEPT !.final_response = EarlyReply(state)]
  /\ pq_pc' = "end"
  /\ Ran("orchestrator")
  /\ UNCHANGED <<gateVars, current_profile, current_medical_state,
                 conversation_history, response, today,
                 last_profile_data,
                 chat_history, last_processed, submitted>>

\* The orchestrator node up to the renderer's langgraph_llm.invoke.
OrchestratorInvoke(modes) ==
  /\ pq_pc = "orchestrator"
  /\ ~RepliesEarly(state)
  /\ GateInvoke(1, modes)
  /\ pq_pc' = "llm_invoke"
  /\ UNCHANGED <<state, node_trace, current_profile, current_medical_state,
                 conversation_history, response, today,
                 last_profile_data,
                 chat_history, last_processed, submitted>>

\* The orchestrator node from the return of invoke on.
OrchestratorReturn ==
  /\ pq_pc = "llm_invoke"
  /\ pc[1] = "idle"
  /\ outcome[1].kind # "none"
  /\ \E content \in Contents :
       state' = [state EXCEPT
                   !.final_response = Render(state.intent, outcome[1], content)]
  /\ pq_pc' = "end"
  /\ Ran("orchestrator")
  /\ UNCHANGED <<gateVars, current_profile, current_medical_state,
                 conversation_history, response, today,
                 last_profile_data,
                 chat_history, last_processed, submitted>>

\* add_interaction with a history that keeps its two latest entries only.
AddInteractionTrimmed(history, user_input, reply, now) ==
  LET interaction == [user_input |-> user_input, response |-> reply,
                      timestamp |-> now]
  IN  IF Len(history) >= 2 THEN Append(Tail(history), interaction)
      ELSE Append(history, interaction)

\* PatientContextManager.add_interaction: the history after the call.
AddInteraction(history, user_input, reply, now) ==
  Append(history, [user_input |-> user_input, response |-> reply,
                   timestamp |-> now])

\* process_query after the graph: add_interaction and the return.
EndQuery ==
  /\ pq_pc = "end"
  /\ conversation_history' =
       AddInteraction(conversation_history, state.user_input,
                      state.final_response, today)
  /\ response' = state.final_response
  /\ pq_pc' = "idle"
  /\ state' = BlankState
  /\ UNCHANGED <<gateVars, node_trace, current_profile, current_medical_state,
                 today, last_profile_data,
                 chat_history, last_processed, submitted>>

\* The nodes between which workflow.invoke can fail; inside the orchestrator
\* node every exception is caught by the node itself.
GraphNodes ==
  {"intent_classifier", "nutrition_worker", "exercise_worker",
   "mood_support_worker", "scheduling_worker", "emergency_worker",
   "general_worker", "orchestrator"}

\* process_query's except branch: workflow.invoke has raised, the apology is
\* recorded and returned.
ProcessQueryExcept ==
  /\ pq_pc \in GraphNodes
  /\ conversation_history' =
       AddInteraction(conversation_history, state.user_input,
                      <<"error_response">>, today)
  /\ response' = <<"error_response">>
  /\ pq_pc' = "idle"
  /\ state' = BlankState
  /\ UNCHANGED <<gateVars, node_trace, current_profile, current_medical_state,
                 today, last_profile_data,
                 chat_history, last_processed, submitted>>

PipeInit ==
  /\ pq_pc = "idle"
  /\ state = BlankState
  /\ node_trace = <<>>
  /\ current_profile = NoProfile
  /\ current_medical_state = NoMedicalState
  /\ conversation_history = <<>>
  /\ response = <<>>
  /\ today = ToOrdinal(<<FirstYear, 1, 1>>)
  /\ last_profile_data = NoProfileData
  /\ chat_history = <<>>
  /\ last_processed = <<>>
  /\ submitted = 0

GateInit ==
  /\ pc = [c \in Callers |-> "idle"]
  /\ env_mode = [c \in Callers |-> "no_loop"]
  /\ run_no = [c \in Callers |-> 1]
  /\ attempt = [c \in Callers |-> 0]
  /\ last_exception = [c \in Callers |-> NoException]
  /\ sleep_left = [c \in Callers |-> 0]
  /\ calls = [c \in Callers |-> 0]
  /\ sleeps = [c \in Callers |-> 0]
  /\ outcome = [c \in Callers |-> NoOutcome]
  /\ sem_value = max_concurrent_requests
  /\ sem_waiters = <<>>
  /\ lock_holder = 0
  /\ request_times = <<>>
  /\ total_requests = 0
  /\ attempts_made = 0
  /\ invocations = 0

Init == GateInit /\ PipeInit

\* One thread calls the gate; the upstream, the monitor's verdict and the
\* thread's event loop are unrestricted.
Next ==
  \/ Invoke(1, EnvModes)
  \/ BeginRequest(1, BOOLEAN)
  \/ ThrottleWake(1)
  \/ CheckRateLimit(1)
  \/ RateLimitWake(1)
  \/ UpstreamSuccess(1)
  \/ UpstreamError(1, UpstreamErrors)
  \/ BackoffWake(1)
  \/ Tick

Spec == Init /\ [][Next]_vars

\* NumCallers threads without an event loop of their own (the sessions of the
\* UI) call the gate concurrently; the monitor never asks for throttling and
\* the upstream raises no RuntimeError.
ConcErrors == [msg : ErrorMessages, type : {"APIError"}]

NextConc ==
  \/ \E c \in Callers : Invoke(c, {"no_loop"})
  \/ \E c \in Callers : BeginRequest(c, {FALSE})
  \/ \E c \in Callers : CheckRateLimit(c)
  \/ \E c \in Callers : RateLimitWake(c)
  \/ \E c \in Callers : UpstreamSuccess(c)
  \/ \E c \in Callers : UpstreamError(c, ConcErrors)
  \/ \E c \in Callers : BackoffWake(c)
  \/ Tick

SpecConc == Init /\ [][NextConc]_vars

\* The event loops run every task that can run, and the clock advances.
FairConc ==
  /\ \A c \in Callers : WF_vars(BeginRequest(c, {FALSE}))
  /\ \A c \in Callers : WF_vars(CheckRateLimit(c))
  /\ \A c \in Callers : WF_vars(RateLimitWake(c))
  /\ \A c \in Callers : WF_vars(UpstreamSuccess(c) \/ UpstreamError(c, ConcErrors))
  /\ \A c \in Callers : WF_vars(BackoffWake(c))
  /\ WF_vars(Tick)

LiveSpecConc == SpecConc /\ FairConc

\* The classifier alone: process_query has just been called with any of the
\* inputs.
InitClassify ==
  /\ GateInit
  /\ pq_pc = "intent_classifier"
  /\ \E text \in UserInputs :
       state = [BlankState EXCEPT !.user_input = text]
  /\ node_trace = <<>>
  /\ current_profile = NoProfile
  /\ current_medical_state = NoMedicalState
  /\ conversation_history = <<>>
  /\ response = <<>>
  /\ today = ToOrdinal(<<FirstYear, 1, 1>>)
  /\ last_profile_data = NoProfileData
  /\ chat_history = <<>>
  /\ last_processed = <<>>
  /\ submitted = 0

SpecClassify == InitClassify /\ [][Classify]_vars

\* One session asks up to MaxQueries questions, one for each route of the
\* classifier; its thread has no event loop, the monitor never asks for
\* throttling and the upstream raises no RuntimeError.  The gate is shared by
\* all sessions, so when the session starts its window is empty or holds the
\* successful requests other sessions have just made.
PriorWindows == {<<>>, [i \in 1..(requests_per_minute - 1) |-> 0]}

QueryInputs ==
  { <<"H","E","L","P">>, <<"E","a","t">>, <<"Y","o","g","a">>,
    <<"s","a","d">>, <<"v","i","s","i","t">>, <<"h","e","l","l","o">> }

InitQuery ==
  /\ pc = [c \in Callers |-> "idle"]
  /\ env_mode = [c \in Callers |-> "no_loop"]
  /\ run_no = [c \in Callers |-> 1]
  /\ attempt = [c \in Callers |-> 0]
  /\ last_exception = [c \in Callers |-> NoException]
  /\ sleep_left = [c \in Callers |-> 0]
  /\ calls = [c \in Callers |-> 0]
  /\ sleeps = [c \in Callers |-> 0]
  /\ outcome = [c \in Callers |-> NoOutcome]
  /\ sem_value = max_concurrent_requests
  /\ sem_waiters = <<>>
  /\ lock_holder = 0
  /\ \E prior \in PriorWindows :
       /\ request_times = prior
       /\ total_requests = Len(prior)
       /\ attempts_made = Len(prior)
  /\ invocations = 0
  /\ pq_pc = "idle"
  /\ state = BlankState
  /\ node_trace = <<>>
  /\ \E stored \in StoredContexts :
       /\ current_profile = stored.profile
       /\ current_medical_state = stored.medical_state
  /\ conversation_history = <<>>
  /\ response = <<>>
  /\ today = ToOrdinal(<<FirstYear, 1, 1>>)
  /\ last_profile_data = NoProfileData
  /\ chat_history = <<>>
  /\ last_processed = <<>>
  /\ submitted = 0

NextQuery ==
  \/ StartQuery(QueryInputs, MaxQueries)
  \/ Classify
  \/ NutritionWorker
  \/ ExerciseWorker
  \/ MoodSupportWorker
  \/ SchedulingWorker
  \/ EmergencyWorker
  \/ GeneralWorker
  \/ OrchestratorReply
  \/ OrchestratorInvoke({"no_loop"})
  \/ BeginRequest(1, {FALSE})
  \/ CheckRateLimit(1)
  \/ RateLimitWake(1)
  \/ UpstreamSuccess(1)
  \/ UpstreamError(1, ConcErrors)
  \/ BackoffWake(1)
  \/ OrchestratorReturn
  \/ EndQuery
  \/ Tick

SpecQuery == InitQuery /\ [][NextQuery]_vars

\* A started query is run to its end: the graph runs its nodes, the event loop
\* runs the gate's task, the upstream answers and the clock advances.
FairQuery ==
  /\ WF_vars(Classify)
  /\ WF_vars(NutritionWorker)
  /\ WF_vars(ExerciseWorker)
  /\ WF_vars(MoodSupportWorker)
  /\ WF_vars(SchedulingWorker)
  /\ WF_vars(EmergencyWorker)
  /\ WF_vars(GeneralWorker)
  /\ WF_vars(OrchestratorReply)
  /\ WF_vars(OrchestratorInvoke({"no_loop"}))
  /\ WF_vars(BeginRequest(1, {FALSE}))
  /\ WF_vars(CheckRateLimit(1))
  /\ WF_vars(RateLimitWake(1))
  /\ WF_vars(UpstreamSuccess(1) \/ UpstreamError(1, ConcErrors))
  /\ WF_vars(BackoffWake(1))
  /\ WF_vars(OrchestratorReturn)
  /\ WF_vars(EndQuery)
  /\ WF_vars(Tick)

LiveSpecQuery == SpecQuery /\ FairQuery

\* The profiles set_profile is called with: ages at both edges of the accepted
\* range, and as lmp_date nothing, the sentinel, a text that is no date, the
\* first and the last days of some months of the years explored (month 13 and
\* the days some months lack included), and the days at chosen distances from
\* today, later days among them.
Years == FirstYear..(FirstYear + NumYears - 1)

Ages == {MIN_PATIENT_AGE - 1, MIN_PATIENT_AGE, MAX_PATIENT_AGE, MAX_PATIENT_AGE + 1}

DaysAgo == {-8, -1, 0, 6, 7, 90, 91, 140, 202, 203}

LmpInputs(now) ==
  {[kind |-> k, ymd |-> <<>>] : k \in {"missing", "unknown", "text"}} \cup
  {[kind |-> "date", ymd |-> <<y, m, d>>] :
     y \in Years, m \in {1, 2, 4, 12, 13}, d \in {1, 29, 30, 31}} \cup
  {[kind |-> "date", ymd |-> FromOrdinal(now - k)] : k \in DaysAgo}

ProfileInputs(now) == [age : Ages, lmp_date : LmpInputs(now)]

\* The days on which the profiles are set.
Todays ==
  {ToOrdinal(<<FirstYear + NumYears - 1, 3, 1>>),
   ToOrdinal(<<FirstYear + NumYears - 1, 12, 31>>)}

\* set_profile(profile_data), called between two queries of the session.
SetProfile ==
  /\ pq_pc = "idle"
  /\ \E data \in ProfileInputs(today) :
       LET result == SetProfileResult(data, today, current_profile,
                                      current_medical_state)
       IN  /\ last_profile_data' = data
           /\ current_profile' = result.profile
           /\ current_medical_state' = result.medical_state
  /\ UNCHANGED <<gateVars, pq_pc, state, node_trace, conversation_history,
                 response, today,
                 chat_history, last_processed, submitted>>

InitProfile ==
  /\ GateInit
  /\ pq_pc = "idle"
  /\ state = BlankState
  /\ node_trace = <<>>
  /\ current_profile = NoProfile
  /\ current_medical_state = NoMedicalState
  /\ conversation_history = <<>>
  /\ response = <<>>
  /\ today \in Todays
  /\ last_profile_data = NoProfileData
  /\ chat_history = <<>>
  /\ last_processed = <<>>
  /\ submitted = 0

SpecProfile == InitProfile /\ [][SetProfile]_vars

\* The worker functions alone: the classifier has just routed any of the
\* inputs, and the state holds any combination of a profile and a medical
\* state being there or not (the workers take any state; set_profile itself
\* stores both or neither).
WorkerContexts ==
  {[profile |-> c.profile, medical_state |-> d.medical_state] :
     c \in StoredContexts, d \in StoredContexts}

InitWorkers ==
  /\ GateInit
  /\ \E text \in UserInputs, context \in WorkerContexts :
       /\ state = [user_input |-> text,
                   patient_profile |-> context.profile,
                   medical_state |-> context.medical_state,
                   intent |-> IntentClassifier(text).intent,
                   context_data |-> <<>>, final_response |-> <<>>]
       /\ pq_pc = IntentClassifier(text).goto
       /\ current_profile = context.profile
       /\ current_medical_state = context.medical_state
  /\ node_trace = <<"intent_classifier">>
  /\ conversation_history = <<>>
  /\ response = <<>>
  /\ today = ToOrdinal(<<FirstYear, 1, 1>>)
  /\ last_profile_data = NoProfileData
  /\ chat_history = <<>>
  /\ last_processed = <<>>
  /\ submitted = 0

NextWorkers ==
  \/ NutritionWorker
  \/ ExerciseWorker
  \/ MoodSupportWorker
  \/ SchedulingWorker
  \/ EmergencyWorker
  \/ GeneralWorker

SpecWorkers == InitWorkers /\ [][NextWorkers]_vars

\* The except branch of a worker: a fact of the worker's type with the message
\* of the exception.
WorkerExceptUpdate(type) == << [type |-> type, error |-> "exception"] >>

\* The updates the worker of the state's intent has a return statement for.
WorkerUpdates(st) ==
  CASE st.intent = "nutrition" ->
         {NutritionWorkerUpdate(st), WorkerExceptUpdate("nutrition_info")}
    [] st.intent = "exercise" ->
         {ExerciseWorkerUpdate(st, search) : search \in VideoSearchOutcomes}
           \cup {WorkerExceptUpdate("exercise_info")}
    [] st.intent = "mood_support" ->
         {MoodSupportWorkerUpdate(st, search) : search \in VideoSearchOutcomes}
           \cup {WorkerExceptUpdate("mood_support_info")}
    [] st.intent = "scheduling" ->
         {SchedulingWorkerUpdate(st), WorkerExceptUpdate("scheduling_info")}
    [] st.intent = "emergency" -> {EmergencyWorkerUpdate(st)}
    [] OTHER -> {GeneralWorkerUpdate(st)}

\* The orchestrator node alone, up to the renderer's reply or its call of the
\* gate: it is entered with the state a worker of the intent returned.
InitRender ==
  /\ GateInit
  /\ \E text \in UserInputs, stored \in StoredContexts :
       LET st == [user_input |-> text,
                  patient_profile |-> stored.profile,
                  medical_state |-> stored.medical_state,
                  intent |-> IntentClassifier(text).intent,
                  context_data |-> <<>>, final_response |-> <<>>]
       IN  /\ \E update \in WorkerUpdates(st) :
                state = [st EXCEPT !.context_data = OperatorAdd(@, update)]
           /\ current_profile = stored.profile
           /\ current_medical_state = stored.medical_state
  /\ pq_pc = "orchestrator"
  /\ node_trace = <<"intent_classifier", "worker">>
  /\ conversation_history = <<>>
  /\ response = <<>>
  /\ today = ToOrdinal(<<FirstYear, 1, 1>>)
  /\ last_profile_data = NoProfileData
  /\ chat_history = <<>>
  /\ last_processed = <<>>
  /\ submitted = 0

NextRender ==
  \/ OrchestratorReply
  \/ OrchestratorInvoke({"no_loop"})

SpecRender == InitRender /\ [][NextRender]_vars

\* One session, with or without a stored profile, asking several questions in
\* a row, each call ending by its return or by its except branch; the upstream
\* answers or fails for good at once and the clock stands still.
HistoryInputs == {<<"E", "a", "t">>, <<"v", "i", "s", "i", "t">>}

NextHistory ==
  \/ StartQuery(HistoryInputs, MaxHistory)
  \/ Classify
  \/ NutritionWorker
  \/ SchedulingWorker
  \/ OrchestratorReply
  \/ OrchestratorInvoke({"no_loop"})
  \/ BeginRequest(1, {FALSE})
  \/ CheckRateLimit(1)
  \/ UpstreamSuccess(1)
  \/ UpstreamError(1, {[msg |-> "other", type |-> "Exception"]})
  \/ OrchestratorReturn
  \/ EndQuery
  \/ ProcessQueryExcept

InitHistory ==
  /\ GateInit
  /\ pq_pc = "idle"
  /\ state = BlankState
  /\ node_trace = <<>>
  /\ \E stored \in StoredContexts :
       /\ current_profile = stored.profile
       /\ current_medical_state = stored.medical_state
  /\ conversation_history = <<>>
  /\ response = <<>>
  /\ today = ToOrdinal(<<FirstYear, 1, 1>>)
  /\ last_profile_data = NoProfileData
  /\ chat_history = <<>>
  /\ last_processed = <<>>
  /\ submitted = 0

SpecHistory == InitHistory /\ [][NextHistory]_vars

\* One nutrition question of a session, with or without a stored profile, over
\* the gate with every behaviour of the upstream and of the clock.
NutritionInputs == {<<"E", "a", "t">>}

NextNutrition ==
  \/ StartQuery(NutritionInputs, 1)
  \/ Classify
  \/ NutritionWorker
  \/ OrchestratorInvoke({"no_loop"})
  \/ BeginRequest(1, {FALSE})
  \/ CheckRateLimit(1)
  \/ RateLimitWake(1)
  \/ UpstreamSuccess(1)
  \/ UpstreamError(1, ConcErrors)
  \/ BackoffWake(1)
  \/ OrchestratorReturn
  \/ EndQuery
  \/ Tick

SpecNutrition == InitQuery /\ [][NextNutrition]_vars

FairNutrition ==
  /\ WF_vars(Classify)
  /\ WF_vars(NutritionWorker)
  /\ WF_vars(OrchestratorInvoke({"no_loop"}))
  /\ WF_vars(BeginRequest(1, {FALSE}))
  /\ WF_vars(CheckRateLimit(1))
  /\ WF_vars(RateLimitWake(1))
  /\ WF_vars(UpstreamSuccess(1) \/ UpstreamError(1, ConcErrors))
  /\ WF_vars(BackoffWake(1))
  /\ WF_vars(OrchestratorReturn)
  /\ WF_vars(EndQuery)
  /\ WF_vars(Tick)

LiveSpecNutrition == SpecNutrition /\ FairNutrition

\* The scheduling worker alone, entered with a medical state of any week that
\* set_profile can store: before the first standard visit, between the visits,
\* at and past the last one, and below zero.
ScheduleWeeks == (0 - 2) .. 42

InitSchedule ==
  /\ GateInit
  /\ \E text \in {t \in UserInputs : IntentClassifier(t).intent = "scheduling"},
        w \in ScheduleWeeks :
       LET medical_state == [present |-> TRUE, current_week |-> w,
                             trimester |-> Trimester(w)]
           profile == [present |-> TRUE, age |-> 25]
       IN  /\ state = [user_input |-> text, patient_profile |-> profile,
                       medical_state |-> medical_state,
                       intent |-> "scheduling",
                       context_data |-> <<>>, final_response |-> <<>>]
           /\ current_profile = profile
           /\ current_medical_state = medical_state
  /\ pq_pc = "scheduling_worker"
  /\ node_trace = <<"intent_classifier">>
  /\ conversation_history = <<>>
  /\ response = <<>>
  /\ today = ToOrdinal(<<FirstYear, 1, 1>>)
  /\ last_profile_data = NoProfileData
  /\ chat_history = <<>>
  /\ last_processed = <<>>
  /\ submitted = 0

SpecSchedule == InitSchedule /\ [][SchedulingWorker]_vars

\* ====================================================================
\* The chat page (UI/ui.py): one script run per event of the user
\* ====================================================================

\* The script run that appended the user's entry has not yet appended the
\* assistant's.
AwaitingReply ==
  /\ chat_history # <<>>
  /\ chat_history[Len(chat_history)].role = "user"

\* The query of the "Next Appointment" button.
AppointmentQuery ==
    <<"s", "h", "o", "w", " ", "m", "y", " ", "n", "e", "x", "t", " ", "a",
    "p", "p", "o", "i", "n", "t", "m", "e", "n", "t", " ", "s", "c", "h",
    "e", "d", "u", "l", "e">>

\* The run of the script after st.chat_input returned a message, up to the
\* start of the graph inside process_query; a message equal to last_processed
\* is skipped.  The session has stored no profile, so the set_profile call of
\* the handler is not made.
ChatSubmit(inputs) ==
  /\ pq_pc = "idle"
  /\ pc[1] = "idle"
  /\ ~AwaitingReply
  /\ submitted < MaxHistory
  /\ submitted' = submitted + 1
  /\ \E user_message \in inputs :
       IF user_message # last_processed
       THEN /\ chat_history' =
                 Append(chat_history, [role |-> "user", text |-> user_message])
            /\ last_processed' = user_message
            /\ state' = NewState(user_message)
            /\ pq_pc' = "intent_classifier"
            /\ node_trace' = <<>>
       ELSE UNCHANGED <<chat_history, last_processed, state, pq_pc, node_trace>>
  /\ UNCHANGED <<gateVars, current_profile, current_medical_state,
                 conversation_history, response, today, last_profile_data>>

\* The run of the script after a click on "Next Appointment", up to the start
\* of the graph.
AppointmentButton ==
  /\ pq_pc = "idle"
  /\ pc[1] = "idle"
  /\ ~AwaitingReply
  /\ submitted < MaxHistory
  /\ submitted' = submitted + 1
  /\ chat_history' =
       Append(chat_history,
              [role |-> "user", text |-> <<"When is my next appointment?">>])
  /\ state' = NewState(AppointmentQuery)
  /\ pq_pc' = "intent_classifier"
  /\ node_trace' = <<>>
  /\ UNCHANGED <<gateVars, current_profile, current_medical_state,
                 conversation_history, response, today, last_profile_data,
                 last_processed>>

\* The rest of that script run: process_query has returned, its cleaned reply
\* is appended and the page is drawn again.
ChatReply ==
  /\ pq_pc = "idle"
  /\ AwaitingReply
  /\ chat_history' =
       Append(chat_history,
              [role |-> "assistant", text |-> CleanAllLlmResponses(response)])
  /\ UNCHANGED <<gateVars, pq_pc, state, node_trace, current_profile,
                 current_medical_state, conversation_history, response, today,
                 last_profile_data, last_processed, submitted>>

\* One session of the chat page: messages typed and buttons clicked one after
\* the other; the upstream answers or fails for good at once.
NextChat ==
  \/ ChatSubmit(HistoryInputs)
  \/ AppointmentButton
  \/ Classify
  \/ NutritionWorker
  \/ SchedulingWorker
  \/ OrchestratorReply
  \/ OrchestratorInvoke({"no_loop"})
  \/ BeginRequest(1, {FALSE})
  \/ CheckRateLimit(1)
  \/ UpstreamSuccess(1)
  \/ UpstreamError(1, {[msg |-> "other", type |-> "Exception"]})
  \/ OrchestratorReturn
  \/ EndQuery
  \/ ChatReply

SpecChat == Init /\ [][NextChat]_vars

\* ====================================================================
\* Properties
\* ====================================================================

\* Callers between acquiring and releasing the admission semaphore.
InFlight(c) ==
  pc[c] \in {"admitted", "throttle", "check", "rl_sleep", "upstream", "backoff"}

InFlightCount == Cardinality({c \in Callers : InFlight(c)})

YoungCount == Len(SelectYoung(request_times))

\* A query is between the call of process_query and its return.
QueryRunning == pq_pc # "idle"

\* The classifier node of the running query has run.
Classified == pq_pc \notin {"idle", "intent_classifier"}

\* C1: every call of process_query returns, and what it has returned and
\* recorded is never the empty string.
C1_QueryReturnsNonEmpty ==
  /\ QueryRunning ~> (pq_pc = "idle")
  /\ [](\A i \in 1..Len(conversation_history) :
          /\ conversation_history[i].response # <<>>
          /\ (i = Len(conversation_history) /\ pq_pc = "idle")
               => response = conversation_history[i].response)

\* C2: when the intent is emergency, the reply the orchestrator writes, and so
\* the reply process_query records and returns, holds both 999 and 16263,
\* whatever the gate returned or raised.
C2_EmergencyNumbers ==
  /\ (pq_pc = "end" /\ state.intent = "emergency")
       => {"999", "16263"} \subseteq NumbersIn(state.final_response)
  /\ \A i \in 1..Len(conversation_history) :
       IntentClassifier(conversation_history[i].user_input).intent = "emergency"
         => {"999", "16263"} \subseteq NumbersIn(conversation_history[i].response)

\* An emergency query has returned the static fallback after the gate raised.
C2_Witness ==
  /\ pq_pc = "idle"
  /\ outcome[1].kind = "raised"
  /\ \E i \in 1..Len(conversation_history) :
       /\ IntentClassifier(conversation_history[i].user_input).intent = "emergency"
       /\ conversation_history[i].response = <<"emergency_fallback">>
       /\ response = conversation_history[i].response

\* The five keyword categories from the highest priority down; general is the
\* category of an input that matches none.
Priority == <<"emergency", "nutrition", "exercise", "mood_support", "scheduling">>

KeywordsOf(category) ==
  CASE category = "emergency" -> EMERGENCY_KEYWORDS
    [] category = "nutrition" -> nutrition_indicators
    [] category = "exercise" -> exercise_indicators
    [] category = "mood_support" -> mood_keywords
    [] category = "scheduling" -> scheduling_indicators

WorkerOf(category) ==
  CASE category = "emergency" -> "emergency_worker"
    [] category = "nutrition" -> "nutrition_worker"
    [] category = "exercise" -> "exercise_worker"
    [] category = "mood_support" -> "mood_support_worker"
    [] category = "scheduling" -> "scheduling_worker"

\* The ranks of the categories of which the lower-cased text holds a keyword.
MatchingRanks(text) ==
  {k \in 1..Len(Priority) : AnyKeyword(Lower(text), KeywordsOf(Priority[k]))}

\* C3: the classifier's result is the matching category of the highest
\* priority, emergency first, and the general route when no category matches;
\* being a function of the text alone, the same input gives the same intent.
C3_PriorityOrder ==
  pq_pc \notin {"idle", "intent_classifier"} =>
    LET ranks == MatchingRanks(state.user_input) IN
    IF ranks = {}
    THEN pq_pc = "general_worker"
    ELSE LET first == CHOOSE k \in ranks : \A j \in ranks : k <= j
         IN  /\ state.intent = Priority[first]
             /\ pq_pc = WorkerOf(Priority[first])

\* An input with keywords of emergency and of a lower category has been
\* classified as emergency.
C3_Witness ==
  /\ pq_pc = "emergency_worker"
  /\ state.intent = "emergency"
  /\ Cardinality(MatchingRanks(state.user_input)) >= 2

\* C4 as the specification words it: after classification the intent is one of
\* emergency, nutrition, exercise, mood_support, scheduling, general.
C4_IntentAsSpecified ==
  Classified =>
    state.intent \in {"emergency", "nutrition", "exercise", "mood_support",
                      "scheduling", "general"}

\* C4: after classification the intent is one of emergency, nutrition,
\* exercise, mood_support, scheduling, general_health, and it is general_health
\* exactly on the general route.
C4_IntentEnumerated ==
  Classified =>
    /\ state.intent \in {"emergency", "nutrition", "exercise", "mood_support",
                         "scheduling", "general_health"}
    /\ (pq_pc = "general_worker") <=> (state.intent = "general_health")

\* An input that matches no keyword has been classified.
C4_Witness ==
  /\ pq_pc = "general_worker"
  /\ MatchingRanks(state.user_input) = {}
  /\ state.intent = "general_health"

\* The type of the fact each branch's worker writes.
FactTypeOf(intent) ==
  CASE intent = "emergency" -> "emergency_info"
    [] intent = "nutrition" -> "nutrition_info"
    [] intent = "exercise" -> "exercise_info"
    [] intent = "mood_support" -> "mood_support_info"
    [] intent = "scheduling" -> "scheduling_info"
    [] OTHER -> "general_health_info"

\* C5: context_data is empty until the worker has run, and from the moment the
\* orchestrator node is next until the graph has ended it holds one fact, the
\* one of the worker of the intent.
C5_OneWorkerFact ==
  /\ pq_pc \in {"orchestrator", "llm_invoke", "end"} =>
       /\ Len(state.context_data) = 1
       /\ state.context_data[1].type = FactTypeOf(state.intent)
  /\ (QueryRunning /\ pq_pc \notin {"orchestrator", "llm_invoke", "end"}) =>
       state.context_data = <<>>

\* The graph has ended for a scheduling query without a medical state, whose
\* worker took its error path.
C5_Witness ==
  /\ pq_pc = "end"
  /\ state.intent = "scheduling"
  /\ Len(state.context_data) = 1
  /\ state.context_data[1].error # ""

C7_WindowBound ==
  /\ [](YoungCount <= requests_per_minute)
  /\ [][\A c \in Callers :
          (pc[c] # "upstream" /\ pc'[c] = "upstream")
            => /\ pc[c] = "check"
               /\ request_times' = Append(SelectYoung(request_times), 0)]_vars

\* The window is full while the call admitted last is at the upstream.
C7_Witness ==
  /\ YoungCount = requests_per_minute
  /\ \E c \in Callers : pc[c] = "upstream" /\ attempt[c] > 0

\* C8: a caller that finds the window full and sleeps goes on to record its
\* entry and make its upstream call, and so does every caller that waits for
\* the rate-limit lock meanwhile.
C8_FullWindowCallerProceeds ==
  \A c \in Callers :
    (pc[c] \in {"rl_sleep", "check"}) ~> (pc[c] = "upstream")

\* C9: one invoke makes at most retry_attempts upstream calls.
C9_AtMostRetryAttemptsCalls ==
  \A c \in Callers : calls[c] <= retry_attempts

\* The step in which caller c's upstream call fails with an error that is
\* neither a rate-limit nor a server error.
NonRetryableFailure(c) ==
  /\ pc[c] = "upstream"
  /\ calls'[c] = calls[c] + 1
  /\ pc'[c] # "backoff"
  /\ ~(pc'[c] = "idle" /\ outcome'[c].kind = "result")

\* C10: on a non-retryable upstream error the invocation ends at once and
\* raises that very error to its caller.
C10_NonRetryablePropagates ==
  [][\A c \in Callers :
       NonRetryableFailure(c)
         => /\ pc'[c] = "idle"
            /\ outcome'[c].kind = "raised"
            /\ outcome'[c].exc.origin = "upstream"
            /\ outcome'[c].exc.msg = "other"
            /\ outcome'[c].exc.id = calls'[c]]_vars

\* The step in which caller c leaves the retry loop with every attempt failed.
RetriesExhausted(c) ==
  /\ pc[c] = "backoff"
  /\ attempt[c] + 1 >= retry_attempts
  /\ pc'[c] # "backoff"

\* C11: when the last permitted attempt has failed with a retryable error,
\* invoke ends there, returns no result, and raises the exception of that last
\* attempt: the upstream's own, and the one of the latest call.
C11_LastExceptionRaised ==
  [][\A c \in Callers :
       RetriesExhausted(c) =>
         /\ pc'[c] = "idle"
         /\ outcome'[c].kind = "raised"
         /\ outcome'[c].exc = last_exception[c]
         /\ outcome'[c].exc.origin = "upstream"
         /\ outcome'[c].exc.id = calls[c]]_vars

\* set_profile has been called, and what its latest call was given.
ProfileCalled == last_profile_data # NoProfileData

LastLmp == last_profile_data.lmp_date

LastAgeInRange ==
  last_profile_data.age >= 18 /\ last_profile_data.age <= 60

\* C12: after set_profile was called with an age outside 18..60 or without an
\* lmp_date, no profile and no medical state are stored, whatever was stored
\* before the call.
C12_InvalidProfileClears ==
  (ProfileCalled /\ (~LastAgeInRange \/ LastLmp.kind = "missing")) =>
    /\ current_profile = NoProfile
    /\ current_medical_state = NoMedicalState

\* A call with an age above the range has cleared the context.
C12_Witness ==
  /\ ProfileCalled
  /\ last_profile_data.age > 60
  /\ LastLmp.kind = "date"
  /\ current_profile = NoProfile
  /\ current_medical_state = NoMedicalState

\* C13: for a profile whose lmp_date is a day d of the calendar, the stored
\* week is the whole number of weeks in today - d (rounded down), the trimester
\* is 1 up to week 12, 2 up to week 28 and 3 after, and the due date is the day
\* 280 days after d; 140 days give week 20 and trimester 2.
C13_WeekTrimesterDueDate ==
  (/\ ProfileCalled /\ LastAgeInRange
   /\ LastLmp.kind = "date" /\ ValidDate(LastLmp.ymd)) =>
    LET days == today - ToOrdinal(LastLmp.ymd)
        medical == current_medical_state
    IN  /\ medical.present
        /\ 7 * medical.current_week <= days
        /\ days < 7 * medical.current_week + 7
        /\ medical.trimester =
             (IF medical.current_week <= 12 THEN 1
              ELSE IF medical.current_week <= 28 THEN 2 ELSE 3)
        /\ ValidDate(medical.due_date)
        /\ ToOrdinal(medical.due_date) = ToOrdinal(LastLmp.ymd) + 280
        /\ (days = 140) => (medical.current_week = 20 /\ medical.trimester = 2)

\* A profile whose LMP is 140 days before today is stored at week 20.
C13_Witness ==
  /\ ProfileCalled /\ LastAgeInRange
  /\ LastLmp.kind = "date" /\ ValidDate(LastLmp.ymd)
  /\ today - ToOrdinal(LastLmp.ymd) = 140
  /\ current_medical_state.current_week = 20
  /\ current_profile.present

\* C14: the current_week of a stored medical state is never negative.
C14_WeekNonNegative ==
  current_medical_state.present => current_medical_state.current_week >= 0

\* C15: for a valid profile whose lmp_date is "unknown" the stored medical
\* state is week 0, trimester 1, no due date, risk level low, whatever the age.
C15_UnknownLmpDefaults ==
  (ProfileCalled /\ LastAgeInRange /\ LastLmp.kind = "unknown") =>
    /\ current_medical_state =
         [present |-> TRUE, current_week |-> 0, trimester |-> 1,
          due_date |-> <<>>, risk_level |-> "low", last_assessment |-> <<>>]
    /\ current_profile.present
    /\ current_profile.age = last_profile_data.age

\* A profile of the highest age with an unknown LMP is stored.
C15_Witness ==
  /\ ProfileCalled
  /\ last_profile_data.age = 60
  /\ LastLmp.kind = "unknown"
  /\ current_profile.present
  /\ current_medical_state.present

\* C16: for a valid profile whose lmp_date is neither "unknown" nor a day of
\* the calendar the stored medical state is the default one (week 0, trimester
\* 1), and the profile is stored as it was given.
C16_MalformedLmpDefaults ==
  (/\ ProfileCalled /\ LastAgeInRange
   /\ \/ LastLmp.kind = "text"
      \/ LastLmp.kind = "date" /\ ~ValidDate(LastLmp.ymd)) =>
    /\ current_medical_state.present
    /\ current_medical_state.current_week = 0
    /\ current_medical_state.trimester = 1
    /\ current_medical_state.due_date = <<>>
    /\ current_profile.present
    /\ current_profile.lmp_date = LastLmp
    /\ current_profile.age = last_profile_data.age

\* A profile with the 30th of February as LMP is stored with the defaults.
C16_Witness ==
  /\ ProfileCalled /\ LastAgeInRange
  /\ LastLmp.kind = "date"
  /\ LastLmp.ymd[2] = 2 /\ LastLmp.ymd[3] = 30
  /\ current_profile.present
  /\ current_medical_state.current_week = 0

\* The types of the facts, by the worker node that writes them.
FactTypeOfNode(node) ==
  CASE node = "nutrition_worker" -> "nutrition_info"
    [] node = "exercise_worker" -> "exercise_info"
    [] node = "mood_support_worker" -> "mood_support_info"
    [] node = "scheduling_worker" -> "scheduling_info"
    [] node = "emergency_worker" -> "emergency_info"
    [] node = "general_worker" -> "general_health_info"

WorkerNodes ==
  {"nutrition_worker", "exercise_worker", "mood_support_worker",
   "scheduling_worker", "emergency_worker", "general_worker"}

\* C17: whatever profile and medical state are there and whatever the video
\* search did, a worker that is due can run, its step hands over to the
\* orchestrator with a fact of its own type, and the facts of the exercise and
\* the mood worker never hold an error.
C17_WorkersAlwaysReturnFact ==
  /\ [](pq_pc \in WorkerNodes => ENABLED NextWorkers)
  /\ [][\A node \in WorkerNodes :
          pq_pc = node =>
            /\ pq_pc' = "orchestrator"
            /\ Len(state'.context_data) = Len(state.context_data) + 1
            /\ "type" \in DOMAIN state'.context_data[Len(state'.context_data)]
            /\ state'.context_data[Len(state'.context_data)].type
                 = FactTypeOfNode(node)
            /\ node \in {"exercise_worker", "mood_support_worker"}
                 => /\ state'.context_data[Len(state'.context_data)].error = ""
                    /\ "videos" \in DOMAIN
                          state'.context_data[Len(state'.context_data)]]_vars

\* The exercise worker has run without a medical state and with no video: the
\* fact a failing search leaves.
C17_Witness ==
  /\ pq_pc = "orchestrator"
  /\ state.intent = "exercise"
  /\ state.patient_profile.present /\ ~state.medical_state.present
  /\ Len(state.context_data) = 1
  /\ state.context_data[1].type = "exercise_info"
  /\ state.context_data[1].error = ""
  /\ state.context_data[1].videos = <<>>

\* The fixed texts a renderer has for its intent: the reply to an error in the
\* fact and the reply of its except branch.
StaticReplies(intent) ==
  CASE intent = "nutrition" -> {<<"NUTRITION_ERROR">>, <<"nutrition_fallback">>}
    [] intent = "exercise" -> {<<"exercise_error_reply">>, <<"exercise_fallback">>}
    [] intent = "mood_support" -> {<<"mood_fallback">>}
    [] intent = "scheduling" -> {<<"SCHEDULE_ERROR">>, <<"scheduling_fallback">>}
    [] intent = "emergency" -> {<<"emergency_fallback">>}
    [] OTHER -> {<<"general_fallback">>}

\* C18: when the fact of the intent's worker holds an error, the orchestrator
\* node ends with a fixed text of that intent and the gate is not called.
C18_ErrorFactStaticFallback ==
  [][(/\ pq_pc = "orchestrator"
      /\ FactOfType(state.context_data, FactTypeOf(state.intent)).error # "")
       => /\ pq_pc' = "end"
          /\ state'.final_response \in StaticReplies(state.intent)
          /\ UNCHANGED gateVars]_vars

\* C19: the history changes only in the step in which process_query returns,
\* by its return or by its except branch alike; that step leaves the entries
\* before it as they are and puts one entry behind them, made of the input of
\* the call, the reply the call returns and the time; every return is such a
\* step.
C19_HistoryAppendOnly ==
  [][/\ conversation_history' # conversation_history
          => pq_pc # "idle" /\ pq_pc' = "idle"
     /\ (pq_pc # "idle" /\ pq_pc' = "idle")
          => /\ Len(conversation_history') = Len(conversation_history) + 1
             /\ SubSeq(conversation_history', 1, Len(conversation_history))
                  = conversation_history
             /\ conversation_history'[Len(conversation_history')]
                  = [user_input |-> state.user_input, response |-> response',
                     timestamp |-> today]]_vars

\* Three calls have returned, one by the except branch, one with the model's
\* text and one with the scheduling renderer's fixed reply, and the history
\* holds them in that order.
C19_Witness ==
  /\ pq_pc = "idle"
  /\ Len(conversation_history) = 3
  /\ conversation_history[1].response = <<"error_response">>
  /\ conversation_history[2].user_input = <<"E", "a", "t">>
  /\ conversation_history[2].response = <<"text">>
  /\ conversation_history[3].user_input = <<"v", "i", "s", "i", "t">>
  /\ conversation_history[3].response = <<"SCHEDULE_ERROR">>

\* A nutrition query is in the graph and neither a profile nor a medical state
\* is stored.
NutritionNoContext ==
  /\ state.intent = "nutrition"
  /\ ~state.patient_profile.present
  /\ ~state.medical_state.present

C21_NodeOrder ==
  LET worker == IF state.intent = "general_health" THEN "general_worker"
                ELSE WorkerOf(state.intent)
  IN  /\ pq_pc = "intent_classifier" => node_trace = <<>>
      /\ pq_pc \in WorkerNodes
           => pq_pc = worker /\ node_trace = <<"intent_classifier">>
      /\ pq_pc \in {"orchestrator", "llm_invoke"}
           => node_trace = <<"intent_classifier", worker>>
      /\ pq_pc = "end"
           => node_trace = <<"intent_classifier", worker, "orchestrator">>
      /\ (pq_pc = "idle" /\ conversation_history # <<>>)
           => /\ Len(node_trace) = 3
              /\ node_trace[1] = "intent_classifier"
              /\ node_trace[2] \in WorkerNodes
              /\ node_trace[3] = "orchestrator"

\* A mood question has gone through its three nodes.
C21_Witness ==
  /\ pq_pc = "end"
  /\ state.intent = "mood_support"
  /\ node_trace = <<"intent_classifier", "mood_support_worker", "orchestrator">>

\* C22: when the gate's call has raised, the step in which the renderer
\* returns writes the fallback text of the renderer of the intent, which is
\* not empty and is not the text of the orchestrator node's own handler.
C22_RendererFallback ==
  [][(pq_pc = "llm_invoke" /\ pq_pc' = "end" /\ outcome[1].kind = "raised")
       => /\ state'.final_response # <<>>
          /\ state'.final_response # <<"orchestrator_apology">>
          /\ state'.final_response =
               (CASE state.intent = "emergency" -> <<"emergency_fallback">>
                  [] state.intent = "nutrition" -> <<"nutrition_fallback">>
                  [] state.intent = "exercise" -> <<"exercise_fallback">>
                  [] state.intent = "mood_support" -> <<"mood_fallback">>
                  [] state.intent = "scheduling" -> <<"scheduling_fallback">>
                  [] OTHER -> <<"general_fallback">>)]_vars

\* The gate has raised for a general question and the general renderer's
\* fallback is the reply.
C22_Witness ==
  /\ pq_pc = "end"
  /\ state.intent = "general_health"
  /\ outcome[1].kind = "raised"
  /\ state.final_response = <<"general_fallback">>

\* C23: the sleep that starts after failed attempt k lasts
\* base_retry_delay * 2^k + 5 * k seconds for a rate-limit error (1, 7, 14) and
\* base_retry_delay * 2^k seconds for a server error (1, 2, 4); no other error
\* starts a sleep, and the attempt that follows a sleep is attempt k + 1,
\* started when the sleep is over.
C23_BackoffDelays ==
  [][\A c \in Callers :
       /\ (pc[c] = "upstream" /\ pc'[c] = "backoff")
            => LET k == attempt[c]
                   msg == last_exception'[c].msg
               IN  /\ k \in 0..2
                   /\ msg \in {"rate_limit", "server_error"}
                   /\ msg = "rate_limit"
                        => /\ sleep_left'[c] = base_retry_delay * (2 ^ k) + 5 * k
                           /\ sleep_left'[c] = <<1, 7, 14>>[k + 1]
                   /\ msg = "server_error"
                        => /\ sleep_left'[c] = base_retry_delay * (2 ^ k)
                           /\ sleep_left'[c] = <<1, 2, 4>>[k + 1]
       /\ (pc[c] = "backoff" /\ pc'[c] = "check")
            => /\ attempt'[c] = attempt[c] + 1
               /\ sleep_left[c] < TickStep]_vars

\* The third attempt has failed with a rate-limit error and the sleep of 14
\* seconds has begun.
C23_Witness ==
  /\ pc[1] = "backoff"
  /\ attempt[1] = 2
  /\ last_exception[1].msg = "rate_limit"
  /\ sleep_left[1] = 14

\* C24: the scheduling fact of week w lists the first at most three of the
\* weeks 20, 26, 30, 34, 36, 38, 40 above w in ascending order, each
\* (week - w) weeks ahead, of type screening exactly at 26 and 34 and of
\* priority high exactly at 26, 34 and 36; from week 40 on the list is empty;
\* the fact holds no error.
C24_NextAncVisits ==
  (pq_pc = "orchestrator" /\ state.intent = "scheduling"
     /\ state.medical_state.present)
    => LET w == state.medical_state.current_week
           fact == state.context_data[1]
           later == {x \in {20, 26, 30, 34, 36, 38, 40} : x > w}
       IN  /\ Len(state.context_data) = 1
           /\ fact.type = "scheduling_info"
           /\ fact.error = ""
           /\ fact.current_week = w
           /\ Len(fact.next_visits) = Min(3, Cardinality(later))
           /\ w >= 40 => fact.next_visits = <<>>
           /\ \A i \in 1..Len(fact.next_visits) :
                LET visit == fact.next_visits[i] IN
                /\ visit.week \in later
                /\ Cardinality({x \in later : x < visit.week}) = i - 1
                /\ visit.weeks_ahead = visit.week - w
                /\ visit.type = IF visit.week = 26 \/ visit.week = 34
                                THEN "screening" ELSE "routine"
                /\ visit.priority = IF visit.week = 26 \/ visit.week = 34
                                       \/ visit.week = 36
                                    THEN "high" ELSE "medium"

\* Week 33: the visits of weeks 34, 36 and 38, one, three and five weeks
\* ahead.
C24_Witness ==
  /\ pq_pc = "orchestrator"
  /\ state.intent = "scheduling"
  /\ state.medical_state.current_week = 33
  /\ Len(state.context_data) = 1
  /\ state.context_data[1].next_visits =
       << [week |-> 34, weeks_ahead |-> 1, type |-> "screening",
           priority |-> "high"],
          [week |-> 36, weeks_ahead |-> 3, type |-> "routine",
           priority |-> "high"],
          [week |-> 38, weeks_ahead |-> 5, type |-> "routine",
           priority |-> "medium"] >>

\* C25: the monitor's lifetime request count equals the number of upstream
\* attempts made: every attempt is logged once and nothing else is logged.
C25_MonitorCountsAttempts == total_requests = attempts_made

\* C26: once the script run of the latest event is over, every message typed
\* and every button clicked so far has had its one run of process_query and
\* its one user entry followed by one assistant entry in chat_history.
C26_OneRunPerMessage ==
  (pq_pc = "idle" /\ ~AwaitingReply)
    => /\ Len(conversation_history) = submitted
       /\ Len(chat_history) = 2 * submitted
       /\ \A i \in 1..Len(chat_history) :
            chat_history[i].role = IF i % 2 = 1 THEN "user" ELSE "assistant"

\* C27: after any sequence of set_profile calls a profile is stored exactly
\* when a medical state is stored.
C27_ProfileIffMedicalState ==
  current_profile.present <=> current_medical_state.present

\* A call with an age below the range has left neither of the two.
C27_Witness ==
  /\ ProfileCalled
  /\ last_profile_data.age < 18
  /\ ~current_profile.present
  /\ ~current_medical_state.present

\* C28: no step of process_query changes the stored profile or the stored
\* medical state, whichever way the call ends, and the state of the running
\* query holds the two as they are stored.
C28_QueryKeepsContext ==
  [][/\ UNCHANGED <<current_profile, current_medical_state>>
     /\ (pq_pc' # "idle")
          => /\ state'.patient_profile = current_profile'
             /\ state'.medical_state = current_medical_state']_vars

\* A session with a stored profile has had a call that ended in the except
\* branch and a call that returned the model's text.
C28_Witness ==
  /\ pq_pc = "idle"
  /\ current_profile.present /\ current_medical_state.present
  /\ Len(conversation_history) = 2
  /\ conversation_history[1].response = <<"error_response">>
  /\ conversation_history[2].response = <<"text">>

\* C29: a run of the retry loop sleeps for backoff at most retry_attempts - 1
\* times: no sleep follows the failure of the last permitted attempt.
C29_SleepsOnlyBetweenAttempts ==
  \A c \in Callers :
    /\ sleeps[c] <= retry_attempts - 1
    /\ pc[c] = "backoff" => attempt[c] + 1 < retry_attempts

\* C30: the free slots of the admission semaphore and the callers holding one
\* always add up to max_concurrent_requests, whichever way the calls before
\* ended; when no call of the gate is in progress every slot is free and
\* nobody is queued.
C30_SlotsReleased ==
  /\ sem_value + InFlightCount = max_concurrent_requests
  /\ (\A c \in Callers : pc[c] = "idle")
       => /\ sem_value = max_concurrent_requests
          /\ sem_waiters = <<>>

\* Three calls have ended, one with the retries used up, one with an error
\* that is not retried and one with a result, and every slot is free again.
C30_Witness ==
  /\ \A c \in Callers : pc[c] = "idle"
  /\ outcome[1].kind = "raised" /\ outcome[1].exc.msg = "rate_limit"
  /\ outcome[2].kind = "raised" /\ outcome[2].exc.msg = "other"
  /\ outcome[3].kind = "result"
  /\ sem_value = max_concurrent_requests

====
